---- MODULE Spec2Model ----
(***************************************************************************)
(* The bug-report lifecycle of bug_reports/bug_report.py: one SQLite table *)
(* bug_reports reached through a shared connection, and the handlers that  *)
(* insert, update and list its rows.                                       *)
(*                                                                         *)
(* Text columns hold strings; the SQL NULL of a text column is NULL.  The  *)
(* progress_notes column is a string built by concatenation: it is a       *)
(* sequence of blocks, the empty sequence being both '' and NULL, which    *)
(* every reader coalesces to '' (lines 1666, 1934).  Timestamps are the    *)
(* seconds of a clock; the NULL of a timestamp column is NoTimestamp.      *)
(***************************************************************************)
EXTENDS Integers, Sequences, FiniteSets, TLC

-----------------------------------------------------------------------------
(* Bounds of the model. *)

\* Handler calls in one behaviour of Spec.
MaxOps == 3
\* The clock runs from 1 to MaxClock seconds.
MaxClock == 2

-----------------------------------------------------------------------------
(* Values. *)

NULL == "NULL"
NoTimestamp == 0

BugIds == {"b1", "b2"}

\* Who calls: atlantis.get_caller() and atlantis.get_client_id().
Sessions ==
  { [caller |-> "alice", client_id |-> "c1"],
    [caller |-> "bob",   client_id |-> "c2"] }

Statuses ==
  {"New", "Triaged", "Assigned", "In Progress", "Good-to-Test", "Resolved", "Dismissed"}
Severities == {"Critical", "High", "Medium", "Low"}
Categories == {"UI", "Performance", "Crash", "Data", "Network", "Other"}

\* Python truthiness of an optional string argument.
Truthy(s) == s # NULL /\ s # ""

\* "atlantis.get_caller() or client_id or 'unknown'"
Username(who) ==
  IF Truthy(who.caller) THEN who.caller
  ELSE IF Truthy(who.client_id) THEN who.client_id ELSE "unknown"

\* "atlantis.get_caller() or 'unknown'"
Reporter(who) == IF Truthy(who.caller) THEN who.caller ELSE "unknown"

-----------------------------------------------------------------------------
(* State. *)

VARIABLES
  db,      \* the table as the shared connection sees it: bug_id -> row
  disk,    \* the table as of the last commit
  clock,   \* CURRENT_TIMESTAMP / datetime.now(), in seconds
  prev,    \* db as it was when the last handler was called
  result,  \* what the last handler reported to its caller
  budget,  \* handler calls still to come
  calls    \* the handler calls in flight on the event loop, and where each is

vars == <<db, disk, clock, prev, result, budget, calls>>

\* The empty table.
NoRows == [b \in {} |-> NULL]

Init ==
  /\ db = NoRows
  /\ disk = NoRows
  /\ clock = 1
  /\ prev = NoRows
  /\ result = [op |-> "none"]
  /\ budget = MaxOps
  /\ calls = <<>>

\* A handler may still be called.
Callable == budget > 0

\* What a handler does from its first statement to its last: it sees the
\* table as prev, leaves it as table, commits or not, and reports res.
Effect(table, committed, res) ==
  /\ budget' = budget - 1
  /\ prev' = db
  /\ db' = table
  /\ disk' = IF committed THEN table ELSE disk
  /\ result' = res
  /\ UNCHANGED clock

\* A handler call with no other call in flight.
Call(table, committed, res) ==
  /\ Effect(table, committed, res)
  /\ UNCHANGED calls

\* A second passes.
Tick ==
  /\ clock < MaxClock
  /\ clock' = clock + 1
  /\ UNCHANGED <<db, disk, prev, result, budget, calls>>

-----------------------------------------------------------------------------
(* submit_bug_report *)

\* Mutant of InsertedRow: title and description change places.
InsertedRow_SwapsTitle(username, title, description, now) ==
  [ username       |-> username,
    title          |-> description,
    description    |-> title,
    severity       |-> NULL,
    category       |-> NULL,
    status         |-> "New",
    assigned_to    |-> NULL,
    assigned_at    |-> NoTimestamp,
    progress_notes |-> <<>>,
    reported_at    |-> now,
    updated_at     |-> now ]

\* The row of the INSERT: the columns it names, the defaults of the others.
InsertedRow(username, title, description, now) ==
  [ username       |-> username,
    title          |-> title,
    description    |-> description,
    severity       |-> NULL,
    category       |-> NULL,
    status         |-> "New",
    assigned_to    |-> NULL,
    assigned_at    |-> NoTimestamp,
    progress_notes |-> <<>>,
    reported_at    |-> now,
    updated_at     |-> now ]

\* Mutant of submit_bug_report: INSERT OR REPLACE, so that a report under
\* an id already in the table takes the place of the row stored there.
submit_bug_report_Replaces(who, bug_id, title, description) ==
  /\ Callable
  /\ Call([b \in DOMAIN db \cup {bug_id} |->
             IF b = bug_id THEN InsertedRow(Reporter(who), title, description, clock)
             ELSE db[b]],
          TRUE,
          [op |-> "submit_bug_report", bug_id |-> bug_id, title |-> title,
           description |-> description, reported |-> "success"])

\* bug_id is the uuid4 drawn at line 256; bug_id is the PRIMARY KEY, so an
\* INSERT under an id already in the table raises and nothing is committed.
\* title and description are NOT NULL columns, which '' satisfies: the
\* handler does not look at either argument before the INSERT.
submit_bug_report(who, bug_id, title, description) ==
  /\ Callable
  /\ IF bug_id \in DOMAIN db
     THEN Call(db, FALSE,
               [op |-> "submit_bug_report", bug_id |-> bug_id, title |-> title,
                description |-> description, reported |-> "raised"])
     ELSE Call(db @@ (bug_id :> InsertedRow(Reporter(who), title, description, clock)),
               TRUE,
               [op |-> "submit_bug_report", bug_id |-> bug_id, title |-> title,
                description |-> description, reported |-> "success"])

-----------------------------------------------------------------------------
(* get_bug_details *)

\* bug_data: the columns of the SELECT, as they are in the row.
BugData(row, bug_id) ==
  [ bug_id         |-> bug_id,
    title          |-> row.title,
    description    |-> row.description,
    severity       |-> row.severity,
    category       |-> row.category,
    status         |-> row.status,
    assigned_to    |-> row.assigned_to,
    assigned_at    |-> row.assigned_at,
    progress_notes |-> row.progress_notes,
    reported_at    |-> row.reported_at,
    updated_at     |-> row.updated_at ]

\* "if not row: ... return None", else the dict.
get_bug_details(bug_id) ==
  /\ Callable
  /\ IF bug_id \notin DOMAIN db
     THEN Call(db, FALSE,
               [op |-> "get_bug_details", bug_id |-> bug_id, reported |-> "not_found"])
     ELSE Call(db, FALSE,
               [op |-> "get_bug_details", bug_id |-> bug_id, reported |-> "success",
                bug_data |-> BugData(db[bug_id], bug_id)])

-----------------------------------------------------------------------------
(* update_bug_severity, update_bug_category, update_bug_status *)

\* "if not severity: severity = None", and the same for category.
EmptyToNone(s) == IF Truthy(s) THEN s ELSE NULL

\* UPDATE ... SET severity = ?, updated_at = CURRENT_TIMESTAMP
SetSeverity(row, severity, now) ==
  [row EXCEPT !.severity = severity, !.updated_at = now]

\* UPDATE ... SET category = ?, updated_at = CURRENT_TIMESTAMP
SetCategory(row, category, now) ==
  [row EXCEPT !.category = category, !.updated_at = now]

\* UPDATE ... SET status = ?, updated_at = CURRENT_TIMESTAMP
SetStatus(row, status, now) ==
  [row EXCEPT !.status = status, !.updated_at = now]

\* The three handlers run their UPDATE ... WHERE bug_id = ?, which changes
\* no row when the id is absent, commit, and log the same message either way.
update_bug_severity(bug_id, severity) ==
  LET table == IF bug_id \in DOMAIN db
               THEN [db EXCEPT ![bug_id] = SetSeverity(@, EmptyToNone(severity), clock)]
               ELSE db
  IN  /\ Callable
      /\ Call(table, TRUE,
              [op |-> "update_bug_severity", bug_id |-> bug_id, reported |-> "success"])

update_bug_category(bug_id, category) ==
  LET table == IF bug_id \in DOMAIN db
               THEN [db EXCEPT ![bug_id] = SetCategory(@, EmptyToNone(category), clock)]
               ELSE db
  IN  /\ Callable
      /\ Call(table, TRUE,
              [op |-> "update_bug_category", bug_id |-> bug_id, reported |-> "success"])

update_bug_status(bug_id, status) ==
  LET table == IF bug_id \in DOMAIN db
               THEN [db EXCEPT ![bug_id] = SetStatus(@, status, clock)]
               ELSE db
  IN  /\ Callable
      /\ Call(table, TRUE,
              [op |-> "update_bug_status", bug_id |-> bug_id, reported |-> "success"])

-----------------------------------------------------------------------------
(* _assign_bugs_to_me *)

\* Mutant of AssignRow: the UPDATE forgets assigned_at.
AssignRow_WithoutAssignedAt(row, username, now) ==
  [row EXCEPT !.assigned_to = username, !.status = "Assigned", !.updated_at = now]

\* Mutant of AssignRow: the row is written afresh, losing its triage.
AssignRow_LosesSeverity(row, username, now) ==
  [row EXCEPT !.assigned_to = username, !.assigned_at = now,
              !.status = "Assigned", !.updated_at = now, !.severity = NULL]

\* Mutant of AssignRow: a bug that was assigned before keeps the time of its
\* first assignment.
AssignRow_KeepsFirstAssignedAt(row, username, now) ==
  [row EXCEPT !.assigned_to = username,
              !.assigned_at = IF row.assigned_at # NoTimestamp THEN row.assigned_at ELSE now,
              !.status = "Assigned", !.updated_at = now]

\* UPDATE ... SET assigned_to = ?, assigned_at = CURRENT_TIMESTAMP,
\*                status = 'Assigned', updated_at = CURRENT_TIMESTAMP
AssignRow(row, username, now) ==
  [row EXCEPT !.assigned_to = username, !.assigned_at = now,
              !.status = "Assigned", !.updated_at = now]

\* The loop over bug_id_list: one UPDATE per id, absent ids changing nothing.
RECURSIVE AssignLoop(_, _, _, _)
AssignLoop(table, bug_id_list, username, now) ==
  IF bug_id_list = <<>> THEN table
  ELSE LET bug_id == Head(bug_id_list) IN
       AssignLoop(IF bug_id \in DOMAIN table
                  THEN [table EXCEPT ![bug_id] = AssignRow(@, username, now)]
                  ELSE table,
                  Tail(bug_id_list), username, now)

\* assigned_count is incremented once per id of the list.
AssignedCount(bug_id_list) == Len(bug_id_list)

\* The handler awaits _init_bug_db() before its first statement and the
\* client after its commit, and nothing in between: the UPDATEs and the
\* commit of one call run without another call's statements among them.
_assign_bugs_to_me(who, bug_id_list) ==
  LET username == Username(who)
      table == AssignLoop(db, bug_id_list, username, clock)
  IN  /\ Callable
      /\ Call(table, TRUE,
              [op |-> "_assign_bugs_to_me", bug_ids |-> bug_id_list, username |-> username,
               assigned_count |-> AssignedCount(bug_id_list), reported |-> "success"])

-----------------------------------------------------------------------------
(* Notes text. *)

\* A literal piece of text: '' is the empty string.
Text(s) == IF s = "" THEN <<>> ELSE <<[kind |-> "text", by |-> NULL, at |-> NoTimestamp, text |-> s]>>

\* "\n\n[{timestamp}] {kind} {who}:\n{notes}"
NoteBlock(kind, who, now, notes) ==
  <<[kind |-> kind, by |-> who, at |-> now, text |-> notes]>>

IsPrefix(s, t) == Len(s) <= Len(t) /\ SubSeq(t, 1, Len(s)) = s

-----------------------------------------------------------------------------
(* _save_bug_progress *)

\* Mutant of SaveProgressRow: the UPDATE leaves updated_at alone.
SaveProgressRow_KeepsUpdatedAt(row, status, notes, now) ==
  [row EXCEPT !.status = status, !.progress_notes = notes]

\* UPDATE ... SET status = ?, progress_notes = ?, updated_at = CURRENT_TIMESTAMP
SaveProgressRow(row, status, notes, now) ==
  [row EXCEPT !.status = status, !.progress_notes = notes, !.updated_at = now]

\* The loop over update_list.  update['bug_id'] and update['status'] raise
\* KeyError on an item without them, which leaves the loop with the UPDATEs
\* of the earlier items executed and not committed.
RECURSIVE SaveLoop(_, _, _)
SaveLoop(table, update_list, now) ==
  IF update_list = <<>> THEN [table |-> table, raised |-> FALSE]
  ELSE LET update == Head(update_list) IN
       IF ~ ({"bug_id", "status"} \subseteq DOMAIN update)
       THEN [table |-> table, raised |-> TRUE]
       ELSE LET notes == IF "notes" \in DOMAIN update THEN update.notes ELSE ""
            IN  SaveLoop(IF update.bug_id \in DOMAIN table
                         THEN [table EXCEPT ![update.bug_id] =
                                 SaveProgressRow(@, update.status, Text(notes), now)]
                         ELSE table,
                         Tail(update_list), now)

_save_bug_progress(update_list) ==
  LET run == SaveLoop(db, update_list, clock)
  IN  /\ Callable
      /\ IF run.raised
         THEN Call(run.table, FALSE,
                   [op |-> "_save_bug_progress", updates |-> update_list,
                    reported |-> "raised"])
         ELSE Call(run.table, TRUE,
                   [op |-> "_save_bug_progress", updates |-> update_list,
                    reported |-> "success", count |-> Len(update_list)])

-----------------------------------------------------------------------------
(* _resolve_bug, _send_bug_back_to_dev, ai_fix_bug *)

\* UPDATE ... SET status = 'Resolved', updated_at = CURRENT_TIMESTAMP
ResolveRow(row, now) ==
  [row EXCEPT !.status = "Resolved", !.updated_at = now]

_resolve_bug(bug_id) ==
  LET table == IF bug_id \in DOMAIN db
               THEN [db EXCEPT ![bug_id] = ResolveRow(@, clock)]
               ELSE db
  IN  /\ Callable
      /\ Call(table, TRUE,
              [op |-> "_resolve_bug", bug_id |-> bug_id, reported |-> "success"])

\* Mutant of SentBackNotes: the new note replaces the earlier notes.
SentBackNotes_Overwrites(current_notes, tester, now, notes) ==
  NoteBlock("Sent back by", tester, now, notes)

\* updated_notes = current_notes + new_note
SentBackNotes(current_notes, tester, now, notes) ==
  current_notes \o NoteBlock("Sent back by", tester, now, notes)

\* UPDATE ... SET status = 'Assigned', progress_notes = ?, updated_at = CURRENT_TIMESTAMP
SendBackRow(row, updated_notes, now) ==
  [row EXCEPT !.status = "Assigned", !.progress_notes = updated_notes,
              !.updated_at = now]

\* The statements between "await _init_bug_db()" and "await
\* atlantis.client_log(...)": SELECT, UPDATE and commit, with no await among
\* them.  assigned_to is the argument of that name: it is only logged.  The
\* tester written into the note is the caller.
SendBackRun(table, who, bug_id, assigned_to, notes, now) ==
  LET tester == Username(who) IN
  [ table     |-> IF bug_id \in DOMAIN table
                  THEN [table EXCEPT ![bug_id] =
                          SendBackRow(@, SentBackNotes(@.progress_notes, tester, now, notes),
                                      now)]
                  ELSE table,
    committed |-> TRUE,
    result    |-> [op |-> "_send_bug_back_to_dev", bug_id |-> bug_id, tester |-> tester,
                   sent_back_to |-> assigned_to, notes |-> notes, reported |-> "success"] ]

_send_bug_back_to_dev(who, bug_id, assigned_to, notes) ==
  LET run == SendBackRun(db, who, bug_id, assigned_to, notes, clock)
  IN  /\ Callable
      /\ Call(run.table, run.committed, run.result)

\* "atlantis.get_caller() or client_id or 'AI'"
AiName(who) ==
  IF Truthy(who.caller) THEN who.caller
  ELSE IF Truthy(who.client_id) THEN who.client_id ELSE "AI"

\* Mutant of FixedNotes: the new note replaces the earlier notes.
FixedNotes_Overwrites(current_notes, ai_name, now, fix_notes) ==
  NoteBlock("Fixed by", ai_name, now, fix_notes)

\* updated_notes = current_notes + new_note
FixedNotes(current_notes, ai_name, now, fix_notes) ==
  current_notes \o NoteBlock("Fixed by", ai_name, now, fix_notes)

\* Mutant of FixRow: the notes are written and the status is left alone.
FixRow_KeepsStatus(row, updated_notes, now) ==
  [row EXCEPT !.progress_notes = updated_notes, !.updated_at = now]

\* UPDATE ... SET status = 'Good-to-Test', progress_notes = ?, updated_at = CURRENT_TIMESTAMP
FixRow(row, updated_notes, now) ==
  [row EXCEPT !.status = "Good-to-Test", !.progress_notes = updated_notes,
              !.updated_at = now]

\* The statements between "await _init_bug_db()" and the next await, with
\* no await among them.  The SELECT finds no row for an absent id: "Bug not
\* found" is returned before any write or commit.
FixRun(table, who, bug_id, fix_notes, now) ==
  LET ai_name == AiName(who) IN
  IF bug_id \notin DOMAIN table
  THEN [ table     |-> table,
         committed |-> FALSE,
         result    |-> [op |-> "ai_fix_bug", bug_id |-> bug_id, reported |-> "not_found"] ]
  ELSE [ table     |-> [table EXCEPT ![bug_id] =
                          FixRow(@, FixedNotes(@.progress_notes, ai_name, now, fix_notes),
                                 now)],
         committed |-> TRUE,
         result    |-> [op |-> "ai_fix_bug", bug_id |-> bug_id, ai_name |-> ai_name,
                        fix_notes |-> fix_notes, reported |-> "success"] ]

ai_fix_bug(who, bug_id, fix_notes) ==
  LET run == FixRun(db, who, bug_id, fix_notes, clock)
  IN  /\ Callable
      /\ Call(run.table, run.committed, run.result)

-----------------------------------------------------------------------------
(* ai_manage_bugs *)

\* "'severity' in update and update['severity']", and so on for each key.
Given(update, key) == key \in DOMAIN update /\ Truthy(update[key])

\* Mutant of ApplyFields: an item for an id that is not in the table creates
\* a row for it.
ApplyFields_Upserts(table, update, now) ==
  LET bug_id == update.bug_id
      t0 == IF bug_id \in DOMAIN table THEN table
            ELSE table @@ (bug_id :> InsertedRow("AI", "", "", now))
      t1 == IF Given(update, "severity")
            THEN [t0 EXCEPT ![bug_id] = SetSeverity(@, update.severity, now)]
            ELSE t0
      t2 == IF Given(update, "category")
            THEN [t1 EXCEPT ![bug_id] = SetCategory(@, update.category, now)]
            ELSE t1
      t3 == IF Given(update, "status")
            THEN [t2 EXCEPT ![bug_id] = SetStatus(@, update.status, now)]
            ELSE t2
  IN  t3

\* The severity, category and status steps of one item, in that order: each
\* runs its UPDATE (no row changes when the id is absent) and appends its
\* line to applied.
ApplyFields(table, update, now) ==
  LET bug_id == update.bug_id
      t1 == IF Given(update, "severity") /\ bug_id \in DOMAIN table
            THEN [table EXCEPT ![bug_id] = SetSeverity(@, update.severity, now)]
            ELSE table
      t2 == IF Given(update, "category") /\ bug_id \in DOMAIN t1
            THEN [t1 EXCEPT ![bug_id] = SetCategory(@, update.category, now)]
            ELSE t1
      t3 == IF Given(update, "status") /\ bug_id \in DOMAIN t2
            THEN [t2 EXCEPT ![bug_id] = SetStatus(@, update.status, now)]
            ELSE t2
  IN  t3

AppliedLines(update) ==
  (IF Given(update, "severity")
   THEN <<[bug_id |-> update.bug_id, field |-> "severity", value |-> update.severity]>>
   ELSE <<>>) \o
  (IF Given(update, "category")
   THEN <<[bug_id |-> update.bug_id, field |-> "category", value |-> update.category]>>
   ELSE <<>>) \o
  (IF Given(update, "status")
   THEN <<[bug_id |-> update.bug_id, field |-> "status", value |-> update.status]>>
   ELSE <<>>)

\* The notes step reads "SELECT notes FROM bug_reports": the table has no
\* column of that name (lines 28-48), so the statement raises whenever the
\* step is reached.
NotesStepRaises(update) == Given(update, "notes")

\* Mutant of ManageItem: after the first error the rest of the batch is
\* dropped.
ManageItem_StopsAfterError(run, update, now) ==
  IF run.errors # <<>> THEN run
  ELSE IF ~ Given(update, "bug_id")
  THEN [run EXCEPT !.errors = @ \o <<[bug_id |-> NULL, error |-> "Missing bug_id"]>>]
  ELSE LET table == ApplyFields(run.table, update, now) IN
       IF NotesStepRaises(update)
       THEN [run EXCEPT !.table = table,
                        !.applied = @ \o AppliedLines(update),
                        !.errors = @ \o <<[bug_id |-> update.bug_id,
                                           error |-> "no such column: notes"]>>]
       ELSE [run EXCEPT !.table = table,
                        !.disk = table,
                        !.applied = @ \o AppliedLines(update)]

\* One item of the loop.  run is [table, disk, applied, errors].  An item
\* whose notes step raises skips the commit of line 2129: its earlier UPDATEs
\* stay in the connection's open transaction.
ManageItem(run, update, now) ==
  IF ~ Given(update, "bug_id")
  THEN [run EXCEPT !.errors = @ \o <<[bug_id |-> NULL, error |-> "Missing bug_id"]>>]
  ELSE LET table == ApplyFields(run.table, update, now) IN
       IF NotesStepRaises(update)
       THEN [run EXCEPT !.table = table,
                        !.applied = @ \o AppliedLines(update),
                        !.errors = @ \o <<[bug_id |-> update.bug_id,
                                           error |-> "no such column: notes"]>>]
       ELSE [run EXCEPT !.table = table,
                        !.disk = table,
                        !.applied = @ \o AppliedLines(update)]

RECURSIVE ManageLoop(_, _, _)
ManageLoop(run, updates_list, now) ==
  IF updates_list = <<>> THEN run
  ELSE ManageLoop(ManageItem(run, Head(updates_list), now), Tail(updates_list), now)

ai_manage_bugs(updates) ==
  LET run == ManageLoop([table |-> db, disk |-> disk, applied |-> <<>>, errors |-> <<>>],
                        updates, clock)
  IN  /\ Callable
      /\ budget' = budget - 1
      /\ prev' = db
      /\ db' = run.table
      /\ disk' = run.disk
      /\ result' = [op |-> "ai_manage_bugs", updates |-> updates, reported |-> "success",
                    applied |-> run.applied, errors |-> run.errors]
      /\ UNCHANGED <<clock, calls>>

-----------------------------------------------------------------------------
(* ORDER BY and LIMIT. *)

\* Every ordering of the selected ids that the ORDER BY allows.  before
\* holds the pairs <<a, b>> whose sort keys put a ahead of b; rows equal under
\* the sort key come in any order.
Ordered(ids, before) ==
  { rows \in [1..Cardinality(ids) -> ids] :
      /\ \A i, j \in DOMAIN rows : i # j => rows[i] # rows[j]
      /\ \A i, j \in DOMAIN rows : i < j => <<rows[j], rows[i]>> \notin before }

\* LIMIT ?
Limit(rows, limit) ==
  IF Len(rows) <= limit THEN rows ELSE SubSeq(rows, 1, limit)

\* CASE severity WHEN 'Critical' THEN 1 WHEN 'High' THEN 2
\*               WHEN 'Medium' THEN 3 WHEN 'Low' THEN 4 ELSE 5 END
SeverityCase(severity) ==
  CASE severity = "Critical" -> 1
    [] severity = "High"     -> 2
    [] severity = "Medium"   -> 3
    [] severity = "Low"      -> 4
    [] OTHER                 -> 5

-----------------------------------------------------------------------------
(* my_assigned_bugs_table *)

\* WHERE (assigned_to = ? OR assigned_to = ?) AND status NOT IN ('Resolved', 'Dismissed')
MyAssignedWhere(table, username, client_id) ==
  { b \in DOMAIN table :
      /\ table[b].assigned_to \in {username, client_id} \ {NULL}
      /\ table[b].status \notin {"Resolved", "Dismissed"} }

\* Mutant of MyAssignedPrecedes: the oldest assignment comes first.
MyAssignedPrecedes_Ascending(r1, r2) ==
  \/ SeverityCase(r1.severity) < SeverityCase(r2.severity)
  \/ /\ SeverityCase(r1.severity) = SeverityCase(r2.severity)
     /\ r1.assigned_at < r2.assigned_at

\* ORDER BY CASE severity ... END, assigned_at DESC
MyAssignedPrecedes(r1, r2) ==
  \/ SeverityCase(r1.severity) < SeverityCase(r2.severity)
  \/ /\ SeverityCase(r1.severity) = SeverityCase(r2.severity)
     /\ r1.assigned_at > r2.assigned_at

\* The dicts appended to bugs: "severity": severity or "Unset".
MyAssignedRow(table, b) ==
  [ bug_id      |-> b,
    severity    |-> IF Truthy(table[b].severity) THEN table[b].severity ELSE "Unset",
    status      |-> table[b].status,
    assigned_at |-> table[b].assigned_at ]

my_assigned_bugs_table(who) ==
  LET username == Username(who)
      ids == MyAssignedWhere(db, username, who.client_id)
      before == {p \in ids \X ids : MyAssignedPrecedes(db[p[1]], db[p[2]])}
  IN  /\ Callable
      /\ \E rows \in Ordered(ids, before) :
           Call(db, FALSE,
                [op |-> "my_assigned_bugs_table", username |-> username,
                 bugs |-> [i \in DOMAIN rows |-> MyAssignedRow(db, rows[i])]])

-----------------------------------------------------------------------------
(* assign_bugs_interactive *)

\* WHERE status IN ('New', 'Triaged') AND (assigned_to IS NULL OR assigned_to = '')
UnassignedWhere(table) ==
  { b \in DOMAIN table :
      /\ table[b].status \in {"New", "Triaged"}
      /\ ~ Truthy(table[b].assigned_to) }

\* ORDER BY CASE severity ... END, reported_at DESC
UnassignedPrecedes(r1, r2) ==
  \/ SeverityCase(r1.severity) < SeverityCase(r2.severity)
  \/ /\ SeverityCase(r1.severity) = SeverityCase(r2.severity)
     /\ r1.reported_at > r2.reported_at

\* The cards of the form, one per row: "{severity or 'Unset'}".
UnassignedCard(table, b) ==
  [ bug_id      |-> b,
    severity    |-> IF Truthy(table[b].severity) THEN table[b].severity ELSE "Unset",
    reported_at |-> table[b].reported_at ]

assign_bugs_interactive ==
  LET ids == UnassignedWhere(db)
      before == {p \in ids \X ids : UnassignedPrecedes(db[p[1]], db[p[2]])}
  IN  /\ Callable
      /\ \E rows \in Ordered(ids, before) :
           Call(db, FALSE,
                [op |-> "assign_bugs_interactive",
                 bugs |-> [i \in DOMAIN rows |-> UnassignedCard(db, rows[i])]])

-----------------------------------------------------------------------------
(* list_bug_reports *)

\* "if status and status.lower() == 'none': status = None"
NoneToNone(s) == IF Truthy(s) /\ s \in {"none", "None", "NONE"} THEN NULL ELSE s

\* Mutant of ListWhere: the status filter replaces the default exclusion.
ListWhere_FilterReplacesDefault(table, status, severity) ==
  { b \in DOMAIN table :
      /\ IF Truthy(status) THEN table[b].status = status
         ELSE table[b].status \notin {"Dismissed", "Resolved"}
      /\ Truthy(severity) => table[b].severity = severity }

\* WHERE status NOT IN ('Dismissed', 'Resolved') [AND status = ?] [AND severity = ?]
ListWhere(table, status, severity) ==
  { b \in DOMAIN table :
      /\ table[b].status \notin {"Dismissed", "Resolved"}
      /\ Truthy(status) => table[b].status = status
      /\ Truthy(severity) => table[b].severity = severity }

\* ORDER BY reported_at DESC
ListPrecedes(r1, r2) == r1.reported_at > r2.reported_at

\* The dicts appended to bugs: "severity": sev or "Unassigned".
ListRow(table, b) ==
  [ bug_id      |-> b,
    severity    |-> IF Truthy(table[b].severity) THEN table[b].severity ELSE "Unassigned",
    status      |-> table[b].status,
    reported_at |-> table[b].reported_at ]

list_bug_reports(status, severity, limit) ==
  LET ids == ListWhere(db, NoneToNone(status), NoneToNone(severity))
      before == {p \in ids \X ids : ListPrecedes(db[p[1]], db[p[2]])}
  IN  /\ Callable
      /\ \E rows \in Ordered(ids, before) :
           Call(db, FALSE,
                [op |-> "list_bug_reports", status |-> status, severity |-> severity,
                 limit |-> limit,
                 bugs |-> [i \in DOMAIN Limit(rows, limit) |-> ListRow(db, rows[i])]])

-----------------------------------------------------------------------------
(* bugs_ready_for_testing *)

\* WHERE status = 'Good-to-Test'
ReadyWhere(table) == { b \in DOMAIN table : table[b].status = "Good-to-Test" }

\* ORDER BY CASE severity ... END
ReadyPrecedes(r1, r2) == SeverityCase(r1.severity) < SeverityCase(r2.severity)

\* The cards of the form, one per row.
ReadyCard(table, b) ==
  [ bug_id         |-> b,
    severity       |-> IF Truthy(table[b].severity) THEN table[b].severity ELSE "Unset",
    assigned_to    |-> table[b].assigned_to,
    progress_notes |-> table[b].progress_notes ]

bugs_ready_for_testing ==
  LET ids == ReadyWhere(db)
      before == {p \in ids \X ids : ReadyPrecedes(db[p[1]], db[p[2]])}
  IN  /\ Callable
      /\ \E rows \in Ordered(ids, before) :
           Call(db, FALSE,
                [op |-> "bugs_ready_for_testing",
                 bugs |-> [i \in DOMAIN rows |-> ReadyCard(db, rows[i])]])

-----------------------------------------------------------------------------
(* get_bugs_for_ai: the file defines the function twice. *)

\* The columns of the modelled rows that CREATE TABLE and the two ALTER TABLE
\* give bug_reports.  A statement naming any other column raises
\* sqlite3.OperationalError.
Columns ==
  { "bug_id", "username", "title", "description", "severity", "category", "status",
    "assigned_to", "assigned_at", "progress_notes", "reported_at", "updated_at" }

\* A keyword argument of a call, or the default of the signature.
Arg(args, key, default) == IF key \in DOMAIN args THEN args[key] ELSE default

\* First definition: WHERE 1=1 [AND status = ?] [AND severity = ?]
FeedWhere(table, status, severity) ==
  { b \in DOMAIN table :
      /\ Truthy(status) => table[b].status = status
      /\ Truthy(severity) => table[b].severity = severity }

\* First definition: ORDER BY CASE severity ... END, reported_at DESC
FeedPrecedes(r1, r2) ==
  \/ SeverityCase(r1.severity) < SeverityCase(r2.severity)
  \/ /\ SeverityCase(r1.severity) = SeverityCase(r2.severity)
     /\ r1.reported_at > r2.reported_at

\* The columns the first definition selects.
FirstFeedColumns ==
  { "bug_id", "title", "description", "severity", "category", "status",
    "assigned_to", "assigned_at", "progress_notes", "reported_at" }

\* The columns the second definition selects.
SecondFeedColumns ==
  { "bug_id", "title", "description", "severity", "category", "status",
    "username", "reported_at", "assigned_to", "notes" }

\* The dict built from one row: the selected columns as they are in the row.
FeedRecord(table, b, columns) ==
  [c \in columns |-> IF c = "bug_id" THEN b ELSE table[b][c]]

\* Second definition: "if not status: status_list = ['New', 'Triaged']",
\* else the names of the comma-separated string (one name here).
StatusList(status) == IF Truthy(status) THEN {status} ELSE {"New", "Triaged"}

\* Second definition: WHERE status IN (...)
SecondFeedWhere(table, status_list) ==
  { b \in DOMAIN table : table[b].status \in status_list }

\* Which of the two definitions the name get_bugs_for_ai is bound to when it
\* is called is up to the loader of the file: either may run.  The second
\* has no severity parameter, so a call that passes one raises TypeError.
get_bugs_for_ai(args) ==
  \/ LET status == Arg(args, "status", "Assigned")
         severity == Arg(args, "severity", NULL)
         limit == Arg(args, "limit", 10)
         ids == FeedWhere(db, status, severity)
         before == {p \in ids \X ids : FeedPrecedes(db[p[1]], db[p[2]])}
     IN  /\ Callable
         /\ FirstFeedColumns \subseteq Columns
         /\ \E rows \in Ordered(ids, before) :
              Call(db, FALSE,
                   [op |-> "get_bugs_for_ai", args |-> args, definition |-> "first",
                    reported |-> "success",
                    bugs |-> [i \in DOMAIN Limit(rows, limit) |->
                                FeedRecord(db, rows[i], FirstFeedColumns)]])
  \/ LET status == Arg(args, "status", NULL)
         limit == Arg(args, "limit", 20)
         ids == SecondFeedWhere(db, StatusList(status))
         before == {p \in ids \X ids : ListPrecedes(db[p[1]], db[p[2]])}
     IN  /\ Callable
         /\ IF "severity" \notin DOMAIN args /\ SecondFeedColumns \subseteq Columns
            THEN \E rows \in Ordered(ids, before) :
                   Call(db, FALSE,
                        [op |-> "get_bugs_for_ai", args |-> args, definition |-> "second",
                         reported |-> "success",
                         bugs |-> [i \in DOMAIN Limit(rows, limit) |->
                                     FeedRecord(db, rows[i], SecondFeedColumns)]])
            ELSE Call(db, FALSE,
                      [op |-> "get_bugs_for_ai", args |-> args, definition |-> "second",
                       reported |-> "raised"])

-----------------------------------------------------------------------------
(* view_bug_report *)

\* The columns view_bug_report selects, of those a row may have.
ViewColumns ==
  { "bug_id", "username", "title", "description", "severity", "category",
    "user_context", "error_timestamp", "status", "assigned_to", "reported_at" }

\* The SELECT is the first statement after _init_bug_db(): when it raises,
\* the exception leaves the handler, which has no try around it.  Otherwise
\* the handler returns {"error": "Bug not found"} for an absent id and logs
\* the row for a present one.
view_bug_report(bug_id) ==
  /\ Callable
  /\ IF ~ (ViewColumns \subseteq Columns)
     THEN Call(db, FALSE,
               [op |-> "view_bug_report", bug_id |-> bug_id, reported |-> "raised"])
     ELSE IF bug_id \notin DOMAIN db
     THEN Call(db, FALSE,
               [op |-> "view_bug_report", bug_id |-> bug_id, reported |-> "not_found"])
     ELSE Call(db, FALSE,
               [op |-> "view_bug_report", bug_id |-> bug_id, reported |-> "success",
                bug |-> FeedRecord(db, bug_id, ViewColumns)])

-----------------------------------------------------------------------------
(* Inputs of the handlers. *)

SeverityInputs == {"", "Critical"}
CategoryInputs == {"", "UI"}
StatusInputs == {"Triaged", "In Progress", "Resolved", "Dismissed"}
AssignLists == {<<"b1">>, <<"b2">>, <<"b1", "b2">>}
ProgressLists ==
  {<<[bug_id |-> b, status |-> s, notes |-> n]>> :
      b \in BugIds, s \in {"In Progress", "Good-to-Test"}, n \in {"", "wip"}}
  \cup {<<[bug_id |-> "b1", status |-> "In Progress", notes |-> "wip"], [bug_id |-> "b2"]>>}
ManageItems(b) ==
  { [bug_id |-> b, severity |-> "High"],
    [bug_id |-> b, category |-> "Crash", status |-> "Dismissed"],
    [bug_id |-> b, severity |-> "Low", notes |-> "dup"] }
ManageLists ==
  {<<u>> : u \in ManageItems("b1") \cup ManageItems("b2") \cup {[severity |-> "High"]}}
  \cup {<<u, v>> : u \in ManageItems("b1"), v \in ManageItems("b2")}
  \cup { <<[bug_id |-> "", severity |-> "Low"], [bug_id |-> "b1", severity |-> "High"]>>,
         <<[bug_id |-> "b1", severity |-> "High"], [bug_id |-> "", severity |-> "Low"]>> }

Next ==
  \/ Tick
  \/ \E who \in Sessions, bug_id \in BugIds :
       submit_bug_report(who, bug_id, "T", "D")
  \/ \E bug_id \in BugIds, severity \in SeverityInputs :
       update_bug_severity(bug_id, severity)
  \/ \E bug_id \in BugIds, category \in CategoryInputs :
       update_bug_category(bug_id, category)
  \/ \E bug_id \in BugIds, status \in StatusInputs :
       update_bug_status(bug_id, status)
  \/ \E who \in Sessions, bug_id_list \in AssignLists :
       _assign_bugs_to_me(who, bug_id_list)
  \/ \E update_list \in ProgressLists :
       _save_bug_progress(update_list)
  \/ \E bug_id \in BugIds :
       _resolve_bug(bug_id)
  \/ \E who \in Sessions, bug_id \in BugIds :
       _send_bug_back_to_dev(who, bug_id, "alice", "still crashes")
  \/ \E who \in Sessions, bug_id \in BugIds :
       ai_fix_bug(who, bug_id, "patched")
  \/ \E updates \in ManageLists :
       ai_manage_bugs(updates)

Spec == Init /\ [][Next]_vars

-----------------------------------------------------------------------------
(* The lifecycle graph the handlers are held to. *)

Terminal == {"Resolved", "Dismissed"}

Edge(from, to) ==
  \/ from \in {"New", "Triaged"} /\ to = "Triaged"
  \/ from \in {"New", "Triaged"} /\ to = "Assigned"
  \/ from = "Assigned" /\ to = "In Progress"
  \/ from = "In Progress" /\ to = "Good-to-Test"
  \/ from = "Good-to-Test" /\ to \in {"Resolved", "Assigned"}
  \/ from \notin Terminal /\ to = "Dismissed"

\* The ids a call of _assign_bugs_to_me named.
Named(bug_id_list) == {bug_id_list[i] : i \in 1..Len(bug_id_list)}

-----------------------------------------------------------------------------
(* Claims. *)

\* C1: every status change a bug undergoes in one handler call is an edge of
\* the lifecycle graph, and a bug enters the table as New.
C1_StatusChangesAreEdges ==
  \A b \in DOMAIN db :
    IF b \in DOMAIN prev
    THEN db[b].status # prev[b].status => Edge(prev[b].status, db[b].status)
    ELSE db[b].status = "New"

\* C2: for every bug, assigned_at is set if and only if assigned_to is set.
C2_AssignedAtIffAssignee ==
  \A b \in DOMAIN db :
    (db[b].assigned_at # NoTimestamp) <=> Truthy(db[b].assigned_to)

\* C2 witness: a bug that was assigned has since gone through a later
\* mutating handler (a send-back) and is still assigned.
C2_Witness ==
  /\ result.op = "_send_bug_back_to_dev"
  /\ result.bug_id \in DOMAIN prev
  /\ Truthy(db[result.bug_id].assigned_to)
  /\ db[result.bug_id].assigned_at # NoTimestamp

\* C3: _assign_bugs_to_me naming a bug already assigned to the same caller
\* leaves its assigned_at, assigned_to and status as they were.
C3_ReassignIsNoOp ==
  result.op = "_assign_bugs_to_me" =>
    \A b \in Named(result.bug_ids) \cap DOMAIN prev :
      prev[b].assigned_to = result.username =>
        /\ db[b].assigned_at = prev[b].assigned_at
        /\ db[b].assigned_to = prev[b].assigned_to
        /\ db[b].status = prev[b].status

\* C4: progress_notes before a handler call is a prefix of progress_notes
\* after it, for every bug.
C4_NotesAppendOnly ==
  \A b \in DOMAIN prev :
    b \in DOMAIN db /\ IsPrefix(prev[b].progress_notes, db[b].progress_notes)

\* C5: a call of update_bug_severity, update_bug_category, update_bug_status,
\* _resolve_bug or _send_bug_back_to_dev with an id absent from the table
\* reports not-found.
C5_AbsentIdReportsNotFound ==
  ( /\ result.op \in {"update_bug_severity", "update_bug_category", "update_bug_status",
                      "_resolve_bug", "_send_bug_back_to_dev"}
    /\ result.bug_id \notin DOMAIN prev )
  => result.reported = "not_found"

\* C6: ai_manage_bugs on a list of two updates, one for an id in the table
\* and one for an id absent from it, returns applied lines for the present
\* id only and exactly one error, which is for the absent id.
C6_OneSuccessOneError ==
  ( /\ result.op = "ai_manage_bugs"
    /\ Len(result.updates) = 2
    /\ result.updates[1].bug_id \in DOMAIN prev
    /\ result.updates[2].bug_id \notin DOMAIN prev )
  => /\ Len(result.errors) = 1
     /\ result.errors[1].bug_id = result.updates[2].bug_id
     /\ result.applied = AppliedLines(result.updates[1])
     /\ LET update == result.updates[1] IN
        \A key \in {"severity", "category", "status"} :
          Given(update, key) => db[update.bug_id][key] = update[key]

\* C10: _assign_bugs_to_me on a bug in New or Triaged without assignee leaves
\* it Assigned to the caller with assigned_at set, and leaves its severity,
\* category, title, description, reporter and progress_notes as they were.
C10_AssignFrame ==
  result.op = "_assign_bugs_to_me" =>
    \A b \in Named(result.bug_ids) \cap DOMAIN prev :
      (prev[b].status \in {"New", "Triaged"} /\ ~ Truthy(prev[b].assigned_to)) =>
        /\ db[b].status = "Assigned"
        /\ db[b].assigned_to = result.username
        /\ db[b].assigned_at # NoTimestamp
        /\ db[b].severity = prev[b].severity
        /\ db[b].category = prev[b].category
        /\ db[b].title = prev[b].title
        /\ db[b].description = prev[b].description
        /\ db[b].username = prev[b].username
        /\ db[b].progress_notes = prev[b].progress_notes

\* C10 witness: a bug whose severity had been set to Critical, unassigned and
\* New, has just been assigned and still has that severity.
C10_Witness ==
  /\ result.op = "_assign_bugs_to_me"
  /\ \E b \in Named(result.bug_ids) \cap DOMAIN prev :
       /\ prev[b].status = "New"
       /\ ~ Truthy(prev[b].assigned_to)
       /\ prev[b].severity = "Critical"
       /\ db[b].status = "Assigned"
       /\ db[b].severity = "Critical"
       /\ db[b].assigned_to = "alice"

\* C12: _assign_bugs_to_me leaves the status of a named bug that is In
\* Progress, Good-to-Test, Resolved or Dismissed as it was.
C12_AssignOnlyFromNewOrTriaged ==
  result.op = "_assign_bugs_to_me" =>
    \A b \in Named(result.bug_ids) \cap DOMAIN prev :
      prev[b].status \in {"In Progress", "Good-to-Test", "Resolved", "Dismissed"} =>
        db[b].status = prev[b].status

\* C13: the count _assign_bugs_to_me reports is the number of rows whose
\* assigned_to the call set: the named ids that are in the table.
C13_CountIsRowsAssigned ==
  result.op = "_assign_bugs_to_me" =>
    result.assigned_count = Cardinality(Named(result.bug_ids) \cap DOMAIN prev)

\* C20: when one caller's _assign_bugs_to_me is followed by another
\* caller's, whichever of the two comes second, a bug of the table that both
\* named is assigned to the second caller, is Assigned, and has the
\* assigned_at written by the second call.
C20_LastAssignerWins ==
  [][ ( /\ result.op = "_assign_bugs_to_me"
        /\ result'.op = "_assign_bugs_to_me"
        /\ budget' # budget
        /\ result'.username # result.username )
      => \A b \in Named(result.bug_ids) \cap Named(result'.bug_ids) \cap DOMAIN db :
           /\ db'[b].assigned_to = result'.username
           /\ db'[b].status = "Assigned"
           /\ db'[b].assigned_at = clock' ]_vars

\* C20 witness: bob has assigned to himself, a second later, a bug that
\* alice had assigned to herself.
C20_Witness ==
  /\ result.op = "_assign_bugs_to_me"
  /\ result.username = "bob"
  /\ \E b \in Named(result.bug_ids) \cap DOMAIN prev :
       /\ prev[b].assigned_to = "alice"
       /\ prev[b].status = "Assigned"
       /\ db[b].assigned_to = "bob"
       /\ db[b].status = "Assigned"
       /\ db[b].assigned_at > prev[b].assigned_at

\* C22: a handler call that changes a row of the table leaves that row's
\* updated_at at the time of the call.
C22_WritesRefreshUpdatedAt ==
  [][ budget' # budget =>
        \A b \in DOMAIN db \cap DOMAIN db' :
          db'[b] # db[b] => db'[b].updated_at = clock' ]_vars

\* C22 witness: _save_bug_progress has changed the status of a bug reported a
\* second earlier, and the bug's updated_at has moved on.
C22_Witness ==
  /\ result.op = "_save_bug_progress"
  /\ \E b \in DOMAIN prev :
       /\ db[b].status # prev[b].status
       /\ db[b].updated_at > prev[b].updated_at

\* The ids a handler call was given.
Referenced(res) ==
  CASE res.op \in {"update_bug_severity", "update_bug_category", "update_bug_status",
                   "_resolve_bug", "_send_bug_back_to_dev", "ai_fix_bug"} ->
         {res.bug_id}
    [] res.op = "_assign_bugs_to_me" -> Named(res.bug_ids)
    [] res.op \in {"_save_bug_progress", "ai_manage_bugs"} ->
         { res.updates[i].bug_id :
             i \in {j \in DOMAIN res.updates : "bug_id" \in DOMAIN res.updates[j]} }
    [] OTHER -> {}

\* C23: update_bug_severity, update_bug_category, update_bug_status,
\* _assign_bugs_to_me, _save_bug_progress, _resolve_bug, _send_bug_back_to_dev,
\* ai_fix_bug and ai_manage_bugs create no row, and change no row but those
\* whose ids they were given: a call given only absent ids leaves the table
\* as it was.
C23_AbsentIdChangesNothing ==
  result.op \in {"update_bug_severity", "update_bug_category", "update_bug_status",
                 "_assign_bugs_to_me", "_save_bug_progress", "_resolve_bug",
                 "_send_bug_back_to_dev", "ai_fix_bug", "ai_manage_bugs"}
  => /\ DOMAIN db = DOMAIN prev
     /\ \A b \in DOMAIN prev \ Referenced(result) : db[b] = prev[b]
     /\ Referenced(result) \cap DOMAIN prev = {} => db = prev

\* C23 witness: _assign_bugs_to_me was given an id of the table and an id
\* absent from it: the first bug is assigned and there is no second bug.
C23_Witness ==
  /\ result.op = "_assign_bugs_to_me"
  /\ Len(result.bug_ids) = 2
  /\ Cardinality(DOMAIN prev) = 1
  /\ Cardinality(DOMAIN db) = 1
  /\ \E b \in DOMAIN db : db[b].status = "Assigned" /\ prev[b].status = "New"

\* C24: a bug that is Resolved or Dismissed when a handler is called has the
\* same status when the handler is done.
C24_TerminalIsAbsorbing ==
  \A b \in DOMAIN prev \cap DOMAIN db :
    prev[b].status \in Terminal => db[b].status = prev[b].status

\* C16: giving a severity or a category to a bug that is New or Triaged
\* (update_bug_severity, update_bug_category, or an ai_manage_bugs item with
\* severity or category and no status) leaves the bug Triaged.
C16_TriageMovesToTriaged ==
  /\ ( /\ result.op = "update_bug_severity"
       /\ result.bug_id \in DOMAIN prev
       /\ prev[result.bug_id].status \in {"New", "Triaged"}
       /\ Truthy(db[result.bug_id].severity) )
     => db[result.bug_id].status = "Triaged"
  /\ ( /\ result.op = "update_bug_category"
       /\ result.bug_id \in DOMAIN prev
       /\ prev[result.bug_id].status \in {"New", "Triaged"}
       /\ Truthy(db[result.bug_id].category) )
     => db[result.bug_id].status = "Triaged"
  /\ result.op = "ai_manage_bugs" =>
       \A i \in DOMAIN result.updates :
         LET update == result.updates[i] IN
         ( /\ Given(update, "bug_id")
           /\ update.bug_id \in DOMAIN prev
           /\ prev[update.bug_id].status \in {"New", "Triaged"}
           /\ Given(update, "severity") \/ Given(update, "category")
           /\ ~ Given(update, "status") )
         => db[update.bug_id].status = "Triaged"

\* The items of an ai_manage_bugs call that the report has an error for.
Failed(updates, errors) ==
  { i \in DOMAIN updates :
      \/ ~ Given(updates[i], "bug_id")
      \/ \E e \in DOMAIN errors : errors[e].bug_id = updates[i].bug_id }

\* C15: in an ai_manage_bugs call with a failing item (no bug_id, or an
\* error from the table while it is applied), every other item that names a
\* bug of the table, before or after the failing one, has its severity,
\* category and status in the table and its lines in applied, and the call
\* returns the report with both applied and errors.
C15_FailingItemDoesNotAbort ==
  ( /\ result.op = "ai_manage_bugs"
    /\ Failed(result.updates, result.errors) # {} )
  => /\ result.reported = "success"
     /\ Len(result.errors) = Cardinality(Failed(result.updates, result.errors))
     /\ \A i \in DOMAIN result.updates \ Failed(result.updates, result.errors) :
          LET update == result.updates[i] IN
          update.bug_id \in DOMAIN prev =>
            /\ \A key \in {"severity", "category", "status"} :
                 Given(update, key) => db[update.bug_id][key] = update[key]
            /\ \A l \in DOMAIN AppliedLines(update) :
                 \E a \in DOMAIN result.applied : result.applied[a] = AppliedLines(update)[l]

\* C15 witness: the first item of two had no bug_id; the second, for a bug
\* of the table, was applied after it.
C15_Witness ==
  /\ result.op = "ai_manage_bugs"
  /\ Len(result.updates) = 2
  /\ ~ Given(result.updates[1], "bug_id")
  /\ result.updates[2].bug_id \in DOMAIN prev
  /\ prev[result.updates[2].bug_id].severity # "High"
  /\ db[result.updates[2].bug_id].severity = "High"
  /\ Len(result.errors) = 1
  /\ Len(result.applied) = 1

\* C25: an ai_manage_bugs item that ends in errors leaves its bug as the
\* call found it, and has no line in applied.
C25_FailedItemLeavesNoTrace ==
  result.op = "ai_manage_bugs" =>
    \A i \in DOMAIN result.updates :
      LET update == result.updates[i] IN
      ( /\ Given(update, "bug_id")
        /\ \E e \in DOMAIN result.errors : result.errors[e].bug_id = update.bug_id )
      => /\ update.bug_id \in DOMAIN prev => db[update.bug_id] = prev[update.bug_id]
         /\ \A a \in DOMAIN result.applied : result.applied[a].bug_id # update.bug_id

\* C26: a _save_bug_progress call that fails partway leaves nothing of its
\* updates behind: the table that later statements on the connection read,
\* and that the next commit makes durable, is the table the call found.
C26_FailedSaveLeavesNoTrace ==
  ( /\ result.op = "_save_bug_progress"
    /\ result.reported = "raised" )
  => db = prev

\* C29: _save_bug_progress leaves the status and the progress_notes of a bug
\* that is assigned to nobody as they were.
C29_SaveOnlyOwnBugs ==
  result.op = "_save_bug_progress" =>
    \A b \in Referenced(result) \cap DOMAIN prev :
      ~ Truthy(prev[b].assigned_to) =>
        /\ db[b].status = prev[b].status
        /\ db[b].progress_notes = prev[b].progress_notes

\* C30: the table holds one row per bug id, the id being its key; no
\* handler call removes an id; a submit_bug_report that succeeds adds one
\* row, under an id the table did not hold, and leaves every other row as
\* it was; one whose id collides with a stored id changes nothing.
C30_IdsAreKept ==
  /\ DOMAIN prev \subseteq DOMAIN db
  /\ result.op = "submit_bug_report" =>
       IF result.reported = "success"
       THEN /\ result.bug_id \notin DOMAIN prev
            /\ DOMAIN db = DOMAIN prev \cup {result.bug_id}
            /\ \A b \in DOMAIN prev : db[b] = prev[b]
       ELSE db = prev

\* C30 witness: a report was submitted under the id of a stored bug that
\* had been worked on since its report, and the stored bug is as it was.
C30_Witness ==
  /\ result.op = "submit_bug_report"
  /\ result.reported = "raised"
  /\ result.bug_id \in DOMAIN prev
  /\ prev[result.bug_id].status # "New"
  /\ db = prev

-----------------------------------------------------------------------------
(* The tester's loop: report, assign, fix, send back. *)

InitTesting ==
  /\ db = NoRows
  /\ disk = NoRows
  /\ clock = 1
  /\ prev = NoRows
  /\ result = [op |-> "none"]
  /\ budget = MaxOps + 1
  /\ calls = <<>>

Reasons == {"still crashes", ""}

NextTesting ==
  \/ Tick
  \/ \E who \in Sessions, bug_id \in BugIds :
       submit_bug_report(who, bug_id, "T", "D")
  \/ \E who \in Sessions, bug_id_list \in AssignLists :
       _assign_bugs_to_me(who, bug_id_list)
  \/ \E who \in Sessions, bug_id \in BugIds :
       ai_fix_bug(who, bug_id, "patched")
  \/ \E who \in Sessions, bug_id \in BugIds, notes \in Reasons :
       _send_bug_back_to_dev(who, bug_id, "alice", notes)
  \/ bugs_ready_for_testing

SpecTesting == InitTesting /\ [][NextTesting]_vars

\* C9: _send_bug_back_to_dev on a bug in Good-to-Test sets its status to
\* Assigned and appends to progress_notes one block holding the reason and
\* the tester, after all earlier notes; assigned_to and assigned_at stay, so
\* an assigned bug is in its assignee's to-do list again.
C9_SendBack ==
  ( /\ result.op = "_send_bug_back_to_dev"
    /\ result.bug_id \in DOMAIN prev
    /\ prev[result.bug_id].status = "Good-to-Test" )
  => LET old == prev[result.bug_id]
         new == db[result.bug_id]
     IN  /\ new.status = "Assigned"
         /\ Len(new.progress_notes) = Len(old.progress_notes) + 1
         /\ IsPrefix(old.progress_notes, new.progress_notes)
         /\ new.progress_notes[Len(new.progress_notes)].text = result.notes
         /\ new.progress_notes[Len(new.progress_notes)].by = result.tester
         /\ new.assigned_to = old.assigned_to
         /\ new.assigned_at = old.assigned_at
         /\ \A who \in Sessions :
              old.assigned_to = Username(who) =>
                result.bug_id \in MyAssignedWhere(db, Username(who), who.client_id)

\* C9 witness: bob has sent back, with "still crashes", a bug that was in
\* Good-to-Test with earlier notes and assigned to alice.
C9_Witness ==
  /\ result.op = "_send_bug_back_to_dev"
  /\ result.bug_id \in DOMAIN prev
  /\ prev[result.bug_id].status = "Good-to-Test"
  /\ prev[result.bug_id].assigned_to = "alice"
  /\ prev[result.bug_id].progress_notes # <<>>
  /\ result.tester = "bob"
  /\ result.notes = "still crashes"
  /\ db[result.bug_id].status = "Assigned"
  /\ result.bug_id \in MyAssignedWhere(db, "alice", "c1")

\* C19: a successful ai_fix_bug leaves the bug Good-to-Test, with
\* progress_notes being the earlier notes followed by one block holding the
\* fix notes and the caller, and in the rows bugs_ready_for_testing selects;
\* bugs_ready_for_testing returns exactly the bugs that are Good-to-Test.
C19_FixedBugIsQueued ==
  /\ ( /\ result.op = "ai_fix_bug"
       /\ result.reported = "success" )
     => LET old == prev[result.bug_id]
            new == db[result.bug_id]
        IN  /\ new.status = "Good-to-Test"
            /\ Len(new.progress_notes) = Len(old.progress_notes) + 1
            /\ IsPrefix(old.progress_notes, new.progress_notes)
            /\ new.progress_notes[Len(new.progress_notes)].text = result.fix_notes
            /\ new.progress_notes[Len(new.progress_notes)].by = result.ai_name
            /\ result.bug_id \in ReadyWhere(db)
  /\ result.op = "bugs_ready_for_testing" =>
       {result.bugs[i].bug_id : i \in DOMAIN result.bugs} =
         { b \in DOMAIN prev : prev[b].status = "Good-to-Test" }

\* C19 witness: the testing queue has shown a bug that bob fixed, next to a
\* bug that is not Good-to-Test and is not shown.
C19_Witness ==
  /\ result.op = "bugs_ready_for_testing"
  /\ Len(result.bugs) = 1
  /\ LET notes == result.bugs[1].progress_notes
     IN  /\ notes # <<>>
         /\ notes[Len(notes)].kind = "Fixed by"
         /\ notes[Len(notes)].by = "bob"
         /\ notes[Len(notes)].text = "patched"
  /\ Cardinality(DOMAIN prev) = 2

-----------------------------------------------------------------------------
(* Two note-appending calls in flight on the event loop at once. *)

\* The bug the two calls are about: assigned to alice and not yet worked on,
\* or fixed once by bob and waiting for its test.
NotesRows ==
  LET assigned == AssignRow(InsertedRow("alice", "T", "D", 1), "alice", 1)
  IN  { assigned, FixRow(assigned, FixedNotes(<<>>, "bob", 1, "patched"), 1) }

\* A call of a handler, scheduled and not yet started.
NoteCalls ==
  { [op |-> "ai_fix_bug", who |-> who, bug_id |-> bug_id, text |-> "patched",
     at |-> "scheduled"] : who \in Sessions, bug_id \in BugIds }
  \cup
  UNION { { [op |-> "_send_bug_back_to_dev", who |-> who, bug_id |-> bug_id,
             text |-> notes, at |-> "scheduled"] : who \in Sessions, bug_id \in BugIds }
          : notes \in Reasons }

InitNotes ==
  /\ \E row \in NotesRows : db = ("b1" :> row)
  /\ disk = db
  /\ prev = db
  /\ clock = 1
  /\ result = [op |-> "none"]
  /\ \E first, second \in NoteCalls : calls = <<first, second>>
  /\ budget = Len(calls)

\* A scheduled _send_bug_back_to_dev runs from its first statement to
\* "await atlantis.client_log(...)", where it gives up the event loop.
send_back_step(i) ==
  /\ calls[i].op = "_send_bug_back_to_dev"
  /\ calls[i].at = "scheduled"
  /\ LET run == SendBackRun(db, calls[i].who, calls[i].bug_id, "alice", calls[i].text, clock)
     IN  Effect(run.table, run.committed, run.result)
  /\ calls' = [calls EXCEPT ![i].at = "logging"]

\* A scheduled ai_fix_bug runs from its first statement to "await
\* atlantis.client_log(...)" or "await atlantis.client_data(...)".
ai_fix_step(i) ==
  /\ calls[i].op = "ai_fix_bug"
  /\ calls[i].at = "scheduled"
  /\ LET run == FixRun(db, calls[i].who, calls[i].bug_id, calls[i].text, clock)
     IN  Effect(run.table, run.committed, run.result)
  /\ calls' = [calls EXCEPT ![i].at = "logging"]

\* The awaited message has been sent: the call goes on to its return.
resume(i) ==
  /\ calls[i].at = "logging"
  /\ calls' = [calls EXCEPT ![i].at = "returned"]
  /\ UNCHANGED <<db, disk, clock, prev, result, budget>>

NextNotes ==
  \/ Tick
  \/ \E i \in DOMAIN calls : send_back_step(i)
  \/ \E i \in DOMAIN calls : ai_fix_step(i)
  \/ \E i \in DOMAIN calls : resume(i)

SpecNotes == InitNotes /\ [][NextNotes]_vars

\* The block a call appends, but for its time.
Appends(call, block) ==
  /\ block.text = call.text
  /\ IF call.op = "ai_fix_bug"
     THEN block.kind = "Fixed by" /\ block.by = AiName(call.who)
     ELSE block.kind = "Sent back by" /\ block.by = Username(call.who)

\* C27: however two note-appending calls on the same existing bug are
\* interleaved on the event loop, every call that has written leaves the
\* earlier notes in place and adds one block, and once both have written
\* the notes end with the two blocks, one of each call.
C27_BothBlocksKept ==
  /\ ( /\ result.op \in {"_send_bug_back_to_dev", "ai_fix_bug"}
       /\ result.bug_id \in DOMAIN prev )
     => /\ IsPrefix(prev[result.bug_id].progress_notes, db[result.bug_id].progress_notes)
        /\ Len(db[result.bug_id].progress_notes)
             = Len(prev[result.bug_id].progress_notes) + 1
  /\ \A b \in DOMAIN db :
       ( \A i \in DOMAIN calls : calls[i].bug_id = b /\ calls[i].at # "scheduled" )
       => LET notes == db[b].progress_notes
              n == Len(notes)
          IN  /\ n >= 2
              /\ \/ Appends(calls[1], notes[n - 1]) /\ Appends(calls[2], notes[n])
                 \/ Appends(calls[2], notes[n - 1]) /\ Appends(calls[1], notes[n])

\* C27 witness: ai_fix_bug was called first and bob's _send_bug_back_to_dev
\* second, the second wrote first, and both have returned: the notes hold
\* the earlier fix, bob's reason and then the new fix.
C27_Witness ==
  /\ \A i \in DOMAIN calls : calls[i].at = "returned" /\ calls[i].bug_id = "b1"
  /\ calls[1].op = "ai_fix_bug"
  /\ calls[1].who.caller = "alice"
  /\ calls[2].op = "_send_bug_back_to_dev"
  /\ calls[2].who.caller = "bob"
  /\ calls[2].text = "still crashes"
  /\ LET notes == db["b1"].progress_notes
     IN  /\ Len(notes) = 3
         /\ notes[2].kind = "Sent back by" /\ notes[2].by = "bob"
         /\ notes[3].kind = "Fixed by" /\ notes[3].by = "alice"
  /\ db["b1"].status = "Good-to-Test"

-----------------------------------------------------------------------------
(* The listings, each run once on a table of three bugs. *)

\* The default of list_bug_reports' limit.
DefaultLimit == 20

ViewSeverities == <<NULL, "Critical", "High", "Medium", "Low">>

\* Where a row stands: reported and unassigned, or assigned to somebody and
\* worked on, or closed.
ViewProfiles ==
  << [status |-> "New",          assigned_to |-> NULL],
     [status |-> "Assigned",     assigned_to |-> "alice"],
     [status |-> "Good-to-Test", assigned_to |-> "bob"],
     [status |-> "Resolved",     assigned_to |-> "alice"],
     [status |-> "Dismissed",    assigned_to |-> NULL] >>

ViewRowCount == Len(ViewSeverities) * MaxClock * Len(ViewProfiles)

\* The n-th row: a severity, a second, a profile.  An unassigned row was
\* reported in that second; an assigned row was reported in second 1 and
\* assigned in that second.
ViewRow(n) ==
  LET severity == ViewSeverities[((n - 1) % Len(ViewSeverities)) + 1]
      at       == (((n - 1) \div Len(ViewSeverities)) % MaxClock) + 1
      profile  == ViewProfiles[((n - 1) \div (Len(ViewSeverities) * MaxClock)) + 1]
      assigned == Truthy(profile.assigned_to)
  IN  [ username       |-> "alice",
        title          |-> "T",
        description    |-> "D",
        severity       |-> severity,
        category       |-> NULL,
        status         |-> profile.status,
        assigned_to    |-> profile.assigned_to,
        assigned_at    |-> IF assigned THEN at ELSE NoTimestamp,
        progress_notes |-> <<>>,
        reported_at    |-> IF assigned THEN 1 ELSE at,
        updated_at     |-> at ]

\* The listings do not read bug_id, so one table stands for all that hold
\* the same three rows under other ids.
InitViews ==
  /\ \E i, j, k \in 1..ViewRowCount :
       /\ i <= j /\ j <= k
       /\ db = ("b1" :> ViewRow(i)) @@ ("b2" :> ViewRow(j)) @@ ("b3" :> ViewRow(k))
  /\ disk = db
  /\ prev = db
  /\ clock = MaxClock
  /\ result = [op |-> "none"]
  /\ budget = 1
  /\ calls = <<>>

ListFilters ==
  { [status |-> NULL, severity |-> NULL],
    [status |-> "none", severity |-> "None"],
    [status |-> "Resolved", severity |-> NULL],
    [status |-> "Dismissed", severity |-> "Critical"],
    [status |-> "New", severity |-> "Low"] }

NextViews ==
  \/ \E filter \in ListFilters, limit \in {2, DefaultLimit} :
       list_bug_reports(filter.status, filter.severity, limit)
  \/ assign_bugs_interactive
  \/ \E who \in Sessions : my_assigned_bugs_table(who)

SpecViews == InitViews /\ [][NextViews]_vars

-----------------------------------------------------------------------------
(* The open list and the triage order *)

Rank(severity) ==
  CASE severity = "Critical" -> 1
    [] severity = "High"     -> 2
    [] severity = "Medium"   -> 3
    [] severity = "Low"      -> 4
    [] OTHER                 -> 5

\* The timestamp the ordering law names for a listing.
Stamp(op, bug) ==
  IF op = "assign_bugs_interactive" THEN bug.reported_at ELSE bug.assigned_at

\* C8: the unassigned-bug picker and the to-do list return their bugs by
\* severity rank ascending and, at equal rank, by timestamp descending
\* (reported for the picker, assigned for the to-do list); bugs of
\* severities Low, Critical and Medium come out as Critical, Medium, Low.
C8_TriageOrder ==
  result.op \in {"assign_bugs_interactive", "my_assigned_bugs_table"} =>
    LET bugs == result.bugs
    IN  /\ \A i, j \in DOMAIN bugs :
             i < j =>
               /\ Rank(bugs[i].severity) <= Rank(bugs[j].severity)
               /\ Rank(bugs[i].severity) = Rank(bugs[j].severity) =>
                    Stamp(result.op, bugs[i]) >= Stamp(result.op, bugs[j])
        /\ {bugs[i].severity : i \in DOMAIN bugs} = {"Low", "Critical", "Medium"}
           /\ Len(bugs) = 3 =>
             [i \in DOMAIN bugs |-> bugs[i].severity] = <<"Critical", "Medium", "Low">>

\* The picker listed three unassigned bugs stored as Low, Critical, Medium.
C8_Witness ==
  /\ result.op = "assign_bugs_interactive"
  /\ Len(result.bugs) = 3
  /\ prev["b1"].severity = "Low"
  /\ prev["b2"].severity = "Critical"
  /\ prev["b3"].severity = "Medium"

-----------------------------------------------------------------------------
(* The testing queue, run once on a table of three bugs. *)

QueueSeverities == {NULL, "High", "Low"}

\* The seconds in which a bug was reported, assigned and last written.
QueueTimes ==
  { t \in (1..MaxClock) \X (1..MaxClock) \X (1..MaxClock) : t[1] <= t[2] /\ t[2] <= t[3] }

\* A bug reported by alice and triaged, assigned to bob and, if fixed, marked
\* as fixed by bob.
QueueRow(severity, times, fixed) ==
  LET reported == [InsertedRow("alice", "T", "D", times[1]) EXCEPT !.severity = severity]
      assigned == AssignRow(reported, "bob", times[2])
  IN  IF fixed
      THEN FixRow(assigned, FixedNotes(<<>>, "bob", times[3], "patched"), times[3])
      ELSE assigned

InitQueue ==
  /\ \E s1, s2, s3 \in QueueSeverities, t1, t2 \in QueueTimes, f1, f2 \in BOOLEAN :
       db = ("b1" :> QueueRow(s1, t1, f1)) @@ ("b2" :> QueueRow(s2, t2, f2))
              @@ ("b3" :> QueueRow(s3, <<1, 1, MaxClock>>, TRUE))
  /\ disk = db
  /\ prev = db
  /\ clock = MaxClock
  /\ result = [op |-> "none"]
  /\ budget = 1
  /\ calls = <<>>

NextQueue == bugs_ready_for_testing

SpecQueue == InitQueue /\ [][NextQueue]_vars

\* The timestamp columns of a row.
Stamps == {"reported_at", "assigned_at", "updated_at"}

\* C28: the testing queue returns the Good-to-Test bugs by severity rank
\* ascending and, at equal rank, by a timestamp descending, whichever of
\* the row's timestamps is meant.
C28_QueueOrder ==
  result.op = "bugs_ready_for_testing" =>
    \E stamp \in Stamps :
      \A i, j \in DOMAIN result.bugs :
        i < j =>
          LET first == prev[result.bugs[i].bug_id]
              second == prev[result.bugs[j].bug_id]
          IN  /\ Rank(first.severity) <= Rank(second.severity)
              /\ Rank(first.severity) = Rank(second.severity) =>
                   first[stamp] >= second[stamp]

-----------------------------------------------------------------------------
(* The reporter's round trip: report, read back, send back. *)

Titles == {"T", "crash on save", ""}
Descriptions == {"D", ""}

NextIntake ==
  \/ Tick
  \/ \E who \in Sessions, bug_id \in BugIds, title \in Titles, description \in Descriptions :
       submit_bug_report(who, bug_id, title, description)
  \/ \E bug_id \in BugIds :
       get_bug_details(bug_id)
  \/ \E who \in Sessions, bug_id \in BugIds, notes \in Reasons :
       _send_bug_back_to_dev(who, bug_id, "alice", notes)
  \/ \E bug_id \in BugIds :
       view_bug_report(bug_id)

SpecIntake == Init /\ [][NextIntake]_vars

\* C11: get_bug_details called on the id that the submit_bug_report just
\* before it returned yields a record with the submitted title and
\* description, status New, and severity, category, assigned_to and
\* assigned_at unset.
C11_SubmitThenGet ==
  [][ ( /\ result.op = "submit_bug_report"
        /\ result.reported = "success"
        /\ result'.op = "get_bug_details"
        /\ result'.bug_id = result.bug_id
        /\ budget' # budget )
      => /\ result'.reported = "success"
         /\ result'.bug_data.title = result.title
         /\ result'.bug_data.description = result.description
         /\ result'.bug_data.status = "New"
         /\ result'.bug_data.severity = NULL
         /\ result'.bug_data.category = NULL
         /\ result'.bug_data.assigned_to = NULL
         /\ result'.bug_data.assigned_at = NoTimestamp ]_vars

\* C11 witness: a bug reported as "crash on save" / "D" has been read back.
C11_Witness ==
  /\ result.op = "get_bug_details"
  /\ result.reported = "success"
  /\ result.bug_data.title = "crash on save"
  /\ result.bug_data.description = "D"
  /\ result.bug_data.status = "New"

\* C14: submit_bug_report with an empty title or an empty description
\* reports a validation error and creates no row, and _send_bug_back_to_dev
\* with an empty reason reports a validation error and changes no row.
C14_ValidationBeforeStore ==
  /\ ( /\ result.op = "submit_bug_report"
       /\ (result.title = "" \/ result.description = "") )
     => (result.reported = "validation_error" /\ db = prev)
  /\ ( /\ result.op = "_send_bug_back_to_dev"
       /\ result.notes = "" )
     => (result.reported = "validation_error" /\ db = prev)

\* C21: no handler call ends by raising: a failure inside a handler is
\* returned to the caller as a result.
C21_FailuresAreReturned ==
  "reported" \in DOMAIN result => result.reported # "raised"

-----------------------------------------------------------------------------
(* The feeds of the fixers: the AI feed and the to-do list, each run once on
   a table of three bugs. *)

FeedSeverities == <<NULL, "High">>

\* Where a row stands.  A row assigned to "c1" was taken in a session of
\* client c1 whose get_caller() was empty.
FeedProfiles ==
  << [status |-> "New",         assigned_to |-> NULL],
     [status |-> "Triaged",     assigned_to |-> NULL],
     [status |-> "Assigned",    assigned_to |-> "alice"],
     [status |-> "Assigned",    assigned_to |-> "c1"],
     [status |-> "In Progress", assigned_to |-> "bob"],
     [status |-> "Resolved",    assigned_to |-> "alice"] >>

FeedRowCount == Len(FeedSeverities) * MaxClock * Len(FeedProfiles)

\* The n-th row: a severity, a second, a profile, as in ViewRow.
FeedRow(n) ==
  LET severity == FeedSeverities[((n - 1) % Len(FeedSeverities)) + 1]
      at       == (((n - 1) \div Len(FeedSeverities)) % MaxClock) + 1
      profile  == FeedProfiles[((n - 1) \div (Len(FeedSeverities) * MaxClock)) + 1]
      assigned == Truthy(profile.assigned_to)
  IN  [ username       |-> "alice",
        title          |-> "T",
        description    |-> "D",
        severity       |-> severity,
        category       |-> NULL,
        status         |-> profile.status,
        assigned_to    |-> profile.assigned_to,
        assigned_at    |-> IF assigned THEN at ELSE NoTimestamp,
        progress_notes |-> <<>>,
        reported_at    |-> IF assigned THEN 1 ELSE at,
        updated_at     |-> at ]

InitFeeds ==
  /\ \E i, j, k \in 1..FeedRowCount :
       /\ i <= j /\ j <= k
       /\ db = ("b1" :> FeedRow(i)) @@ ("b2" :> FeedRow(j)) @@ ("b3" :> FeedRow(k))
  /\ disk = db
  /\ prev = db
  /\ clock = MaxClock
  /\ result = [op |-> "none"]
  /\ budget = 1
  /\ calls = <<>>

NoArgs == [key \in {} |-> NULL]

FeedArgs ==
  { NoArgs, [limit |-> 2], [status |-> "Resolved"], [severity |-> "High"] }

NextFeeds ==
  \/ \E args \in FeedArgs : get_bugs_for_ai(args)
  \/ \E who \in Sessions : my_assigned_bugs_table(who)

SpecFeeds == InitFeeds /\ [][NextFeeds]_vars

\* C17: get_bugs_for_ai called without a status argument succeeds and
\* returns only bugs that are New or Triaged.
C17_FeedDefaultsToNewTriaged ==
  ( /\ result.op = "get_bugs_for_ai"
    /\ "status" \notin DOMAIN result.args )
  => /\ result.reported = "success"
     /\ \A i \in DOMAIN result.bugs : result.bugs[i].status \in {"New", "Triaged"}

\* C18: my_assigned_bugs_table returns exactly the bugs whose assigned_to is
\* the caller's username and whose status is neither Resolved nor Dismissed.
C18_ToDoIsCallersOpenBugs ==
  result.op = "my_assigned_bugs_table" =>
    {result.bugs[i].bug_id : i \in DOMAIN result.bugs} =
      { b \in DOMAIN prev :
          prev[b].assigned_to = result.username /\ prev[b].status \notin Terminal }

====
